---- MODULE Spec2Model ----
(***************************************************************************)
(* Model of go-hckit's tracing layer (src/tracing.go):                     *)
(*   InitGlobalTracer, TracingMiddleware, InjectHeaders and                *)
(*   TracingRoundTripper.RoundTrip.                                        *)
(*                                                                         *)
(* The tracer is the collaborator the code calls.  Its two possible        *)
(* values are modelled by what the calls made in tracing.go do:            *)
(*   "noop"   opentracing's default global tracer (nothing installed):     *)
(*            Extract returns ErrSpanContextNotFound, spans keep nothing,  *)
(*            Inject writes nothing;                                       *)
(*   "jaeger" the tracer InitGlobalTracer installs, with the Zipkin B3     *)
(*            propagator registered for HTTPHeaders, the const sampler     *)
(*            and shared RPC spans.                                        *)
(* Strings that the code inspects or converts (paths, header keys, hex     *)
(* ids) are sequences of one-character strings.                            *)
(*                                                                         *)
(* Assumptions of the model:                                               *)
(*   - InitGlobalTracer runs once, at startup, and requests are handled    *)
(*     after it has returned (with or without an error);                   *)
(*   - config.FromEnv returns a nil configuration with its error;          *)
(*   - the tracer's random ids are fresh and fit 64 bits;                  *)
(*   - requests have a URL and a header map, as net/http provides them;    *)
(*   - a panic of a wrapped handler is recovered by the HTTP server.       *)
(* The fields ev, calls, passed of a request and users, finishes of a span *)
(* record what happened; the code does not read them.                      *)
(***************************************************************************)
EXTENDS Integers, Sequences, FiniteSets, TLC

\* ------------------------------------------------------------------ bounds
\* Number of request slots (inbound and outbound calls together).
MaxRequests == 2
\* First id the tracer's random id generator hands out; ids are fresh.
FirstId == 15

\* ------------------------------------------------------------------ values
None == "none"

\* The literal of the bypass rule, tracing.go:61.
Health == <<"h","e","a","l","t","h">>

\* Inbound request paths (r.URL.Path).
PathHealthLive == <<"/","h","e","a","l","t","h","/","l","i","v","e">>
PathOrders     == <<"/","o","r","d","e","r","s","/","4","2">>
PathApiHealthz == <<"/","v","1","/","h","e","a","l","t","h","z">>
PathHeal       == <<"/","h","e","a","l","/","t","h">>
PathCharge     == <<"/","p","a","y","m","e","n","t","s","/","c","h","a","r","g","e">>

\* strings.Contains(s, substr)
Contains(s, substr) ==
    \E i \in 0..(Len(s) - Len(substr)) :
        SubSeq(s, i + 1, i + Len(substr)) = substr

\* ------------------------------------------------------------ text helpers
LowerLetters == <<"a","b","c","d","e","f","g","h","i","j","k","l","m",
                  "n","o","p","q","r","s","t","u","v","w","x","y","z">>
UpperLetters == <<"A","B","C","D","E","F","G","H","I","J","K","L","M",
                  "N","O","P","Q","R","S","T","U","V","W","X","Y","Z">>

\* unicode.ToUpper and unicode.ToLower on the ASCII letters, as tables.
UpperOf == [c \in {LowerLetters[i] : i \in 1..26} |->
               UpperLetters[CHOOSE i \in 1..26 : LowerLetters[i] = c]]
LowerOf == [c \in {UpperLetters[i] : i \in 1..26} |->
               LowerLetters[CHOOSE i \in 1..26 : UpperLetters[i] = c]]

ToUpperCh(c) == IF c \in DOMAIN UpperOf THEN UpperOf[c] ELSE c

ToLowerCh(c) == IF c \in DOMAIN LowerOf THEN LowerOf[c] ELSE c

\* strings.ToLower
ToLower(s) == [i \in 1..Len(s) |-> ToLowerCh(s[i])]

\* textproto.CanonicalMIMEHeaderKey, applied by http.Header.Set: the first
\* letter and every letter after a hyphen upper case, the others lower case.
CanonicalMIMEHeaderKey(k) ==
    [i \in 1..Len(k) |->
        IF i = 1 \/ k[i - 1] = "-" THEN ToUpperCh(k[i]) ELSE ToLowerCh(k[i])]

HexDigits == <<"0","1","2","3","4","5","6","7","8","9","a","b","c","d","e","f">>

RECURSIVE FormatDec(_)
\* Variant of FormatHex: the id written in base 10.
FormatDec(n) ==
    IF n < 10 THEN <<HexDigits[n + 1]>>
    ELSE FormatDec(n \div 10) \o <<HexDigits[(n % 10) + 1]>>

RECURSIVE FormatHex(_)
\* strconv.FormatUint(n, 16)
FormatHex(n) ==
    IF n < 16 THEN <<HexDigits[n + 1]>>
    ELSE FormatHex(n \div 16) \o <<HexDigits[(n % 16) + 1]>>

\* The value of each hexadecimal digit.
HexValueOf == [c \in {HexDigits[i] : i \in 1..16} |->
                  (CHOOSE i \in 1..16 : HexDigits[i] = c) - 1]

\* The value of a digit in either case, -1 for any other character.
HexValue(c) ==
    IF ToLowerCh(c) \in DOMAIN HexValueOf THEN HexValueOf[ToLowerCh(c)] ELSE -1

RECURSIVE ParseHexAcc(_, _)
ParseHexAcc(s, acc) ==
    IF s = << >> THEN acc
    ELSE IF HexValue(Head(s)) < 0 THEN -1
    ELSE ParseHexAcc(Tail(s), acc * 16 + HexValue(Head(s)))

\* strconv.ParseUint(value, 16, 64): the value, or -1 for a syntax error.
ParseHex(s) == IF s = << >> THEN -1 ELSE ParseHexAcc(s, 0)

\* ---------------------------------------------------------- header carrier
KeyTraceId  == <<"x","-","b","3","-","t","r","a","c","e","i","d">>
KeySpanId   == <<"x","-","b","3","-","s","p","a","n","i","d">>
KeyParentId == <<"x","-","b","3","-","p","a","r","e","n","t","s","p","a","n","i","d">>
KeySampled  == <<"x","-","b","3","-","s","a","m","p","l","e","d">>

NoHeaders == << >>

\* opentracing.HTTPHeadersCarrier.Set: http.Header.Set(key, val)
HeaderSet(h, key, val) ==
    [k \in (DOMAIN h) \cup {CanonicalMIMEHeaderKey(key)} |->
        IF k = CanonicalMIMEHeaderKey(key) THEN val ELSE h[k]]

\* The values ForeachKey hands to the extractor under a lower-cased key.
HeaderValues(h, lowerKey) == {h[k] : k \in {x \in DOMAIN h : ToLower(x) = lowerKey}}

\* The number the extractor ends with for one id header: 0 when the header
\* is absent, -1 when some value does not parse.
HeaderId(h, lowerKey) ==
    LET vs == HeaderValues(h, lowerKey) IN
    IF vs = {} THEN 0
    ELSE IF \E v \in vs : ParseHex(v) < 0 THEN -1
    ELSE ParseHex(CHOOSE v \in vs : TRUE)

\* ------------------------------------------------ Zipkin B3 propagator
\* A span context: trace id, span id, parent span id, sampling flag.
SpanContext(t, s, p, smp) ==
    [kind |-> "jaeger", traceID |-> t, spanID |-> s, parentID |-> p, sampled |-> smp]

\* A nil opentracing.SpanContext.
NilContext ==
    [kind |-> "nil", traceID |-> 0, spanID |-> 0, parentID |-> 0, sampled |-> FALSE]

\* The context of a span of the no-op tracer: it carries no identity.
NoopContext ==
    [kind |-> "noop", traceID |-> 0, spanID |-> 0, parentID |-> 0, sampled |-> FALSE]

\* zipkin.Propagator.Inject, registered for HTTPHeaders at tracing.go:43.
ZipkinInject(sc, h) ==
    LET h1 == HeaderSet(h, KeyTraceId, FormatHex(sc.traceID))
        h2 == IF sc.parentID # 0
              THEN HeaderSet(h1, KeyParentId, FormatHex(sc.parentID))
              ELSE h1
        h3 == HeaderSet(h2, KeySpanId, FormatHex(sc.spanID))
    IN  HeaderSet(h3, KeySampled, IF sc.sampled THEN <<"1">> ELSE <<"0">>)

\* zipkin.Propagator.Extract, registered for HTTPHeaders at tracing.go:44:
\* [ctx, err]; a value that does not parse is an error, a trace id of 0
\* (none present) is ErrSpanContextNotFound.
ZipkinExtract(h) ==
    LET t   == HeaderId(h, KeyTraceId)
        s   == HeaderId(h, KeySpanId)
        p   == HeaderId(h, KeyParentId)
        smp == \E v \in HeaderValues(h, KeySampled) :
                   v = <<"1">> \/ v = <<"t","r","u","e">>
    IN  IF t < 0 \/ s < 0 \/ p < 0
        THEN [ctx |-> NilContext, err |-> "ErrSyntax"]
        ELSE IF t = 0
        THEN [ctx |-> NilContext, err |-> "ErrSpanContextNotFound"]
        ELSE [ctx |-> SpanContext(t, s, p, smp), err |-> None]

\* ------------------------------------------------------------- the tracer
\* tracer.Extract(opentracing.HTTPHeaders, HTTPHeadersCarrier(r.Header))
TracerExtract(tracer, h) ==
    IF tracer = "jaeger" THEN ZipkinExtract(h)
    ELSE [ctx |-> NilContext, err |-> "ErrSpanContextNotFound"]

\* span.Tracer().Inject(span.Context(), HTTPHeaders, HTTPHeadersCarrier(r.Header))
TracerInject(tracer, sc, h) ==
    IF tracer = "jaeger" THEN ZipkinInject(sc, h) ELSE h

\* A reference the Jaeger tracer accepts as a parent: a valid span context.
IsValidReference(ref) == ref.kind = "jaeger" /\ ref.traceID # 0 /\ ref.spanID # 0

\* The context the tracer gives a new span.  id is the next random id.
\* A root span starts a new trace and is sampled (const sampler, param 1,
\* tracing.go:26); a server span with a parent shares the caller's span id
\* (ZipkinSharedRPCSpan, tracing.go:45).
NewContext(tracer, ref, rpcServer, id) ==
    IF tracer # "jaeger" THEN NoopContext
    ELSE IF ~IsValidReference(ref) THEN SpanContext(id, id, 0, TRUE)
    ELSE IF rpcServer THEN SpanContext(ref.traceID, ref.spanID, ref.parentID, ref.sampled)
    ELSE SpanContext(ref.traceID, id, ref.spanID, ref.sampled)

\* tracer.StartSpan(name, opts...): ref is the ChildOf reference among the
\* options (NilContext when there is none), rpcServer the span.kind=server tag of
\* ext.RPCServerOption.
TracerStartSpan(tracer, owner, name, ref, rpcServer, id) ==
    [owner    |-> owner,
     tracer   |-> tracer,
     name     |-> name,
     ref      |-> ref,
     parent   |-> IF tracer = "jaeger" /\ IsValidReference(ref) THEN ref ELSE NilContext,
     ctx      |-> NewContext(tracer, ref, rpcServer, id),
     tags     |-> IF tracer = "jaeger" /\ rpcServer
                  THEN {<<"span.kind", "server">>} ELSE {},
     logs     |-> << >>,
     finishes |-> 0,
     open     |-> TRUE,
     users    |-> {}]

\* span.SetTag(key, value), called by slot `by`.
SpanSetTag(sp, by, key, value) ==
    [sp EXCEPT !.tags  = IF sp.tracer = "jaeger"
                         THEN {t \in @ : t[1] # key} \cup {<<key, value>>}
                         ELSE @,
               !.users = @ \cup {by}]

\* span.LogFields(otlog.String("event", event), otlog.String("value", value));
\* `late` records a field logged after the span was finished.
SpanLogFields(sp, by, event, value) ==
    [sp EXCEPT !.logs  = IF sp.tracer = "jaeger"
                         THEN Append(@, [event |-> event, value |-> value,
                                         late |-> ~sp.open])
                         ELSE @,
               !.users = @ \cup {by}]

\* span.Finish()
SpanFinish(sp, by) ==
    [sp EXCEPT !.finishes = @ + 1, !.open = FALSE, !.users = @ \cup {by}]

\* ------------------------------------------------------------------ state
VARIABLES
    initPc,        \* position of InitGlobalTracer
    cfg,           \* its cfg variable
    err,           \* its err variable
    envErr,        \* what config.FromEnv returned as error (kept for reference)
    initRet,       \* the error InitGlobalTracer returned
    logged,        \* whether it logged "Could not initialize jaeger tracer"
    installed,     \* whether opentracing.SetGlobalTracer was called
    globalTracer,  \* opentracing.GlobalTracer()
    rq,            \* the request slots
    spans          \* per slot, the spans its request started, in order

vars == <<initPc, cfg, err, envErr, initRet, logged, installed, globalTracer, rq, spans>>
initVars == <<initPc, cfg, err, envErr, initRet, logged, installed, globalTracer>>

Slots == 1..MaxRequests

NilConfig == [nil |-> TRUE, sampler |-> "env", logSpans |-> FALSE]
NoResult  == [res |-> "unset", err |-> "unset"]
NoSpan    == [slot |-> 0, idx |-> 0]

\* What an underlying transport may return from RoundTrip.
TransportResults ==
    {[res |-> "200 OK", err |-> None],
     [res |-> "nil", err |-> "connection refused"]}

\* Status codes a wrapped handler may write.
Statuses == {"200", "500"}

\* Headers an inbound request may arrive with from elsewhere: none, a B3
\* context of another service, a trace id that is not hexadecimal.
UpstreamHeaders ==
    HeaderSet(HeaderSet(HeaderSet(NoHeaders, KeyTraceId, <<"5">>),
                        KeySpanId, <<"7">>), KeySampled, <<"1">>)
MalformedHeaders == HeaderSet(NoHeaders, KeyTraceId, <<"z","z">>)

\* The inbound requests of the model: path and headers.
InboundRequests ==
    {[path |-> PathHealthLive, hdr |-> NoHeaders],
     [path |-> PathApiHealthz, hdr |-> UpstreamHeaders],
     [path |-> PathOrders,     hdr |-> NoHeaders],
     [path |-> PathOrders,     hdr |-> UpstreamHeaders],
     [path |-> PathHeal,       hdr |-> MalformedHeaders]}

\* The outbound calls of the model: path, method, and whether the call goes
\* through TracingRoundTripper.RoundTrip or to InjectHeaders itself.
OutboundRequests ==
    {[path |-> PathCharge, method |-> "POST", viaRT |-> TRUE],
     [path |-> PathOrders, method |-> "GET",  viaRT |-> FALSE]}

IdleReq ==
    [kind   |-> "idle",      \* "idle", "inbound" or "outbound"
     pc     |-> "idle",
     path   |-> << >>,       \* r.URL.Path
     method |-> "",          \* r.Method
     hdr    |-> NoHeaders,   \* r.Header
     wire   |-> NilContext,  \* wireContext
     err    |-> None,        \* err of Extract
     span   |-> NoSpan,      \* the span variable: a reference into spans
     caller |-> 0,           \* outbound: the inbound slot whose handler calls
     viaRT  |-> FALSE,       \* outbound: called through RoundTrip
     calls  |-> 0,           \* calls of next.ServeHTTP / Proxied.RoundTrip
     passed |-> NoHeaders,   \* the headers the callee received
     out    |-> None,        \* inbound: status written, or "panic"
     tret   |-> NoResult,    \* outbound: what Proxied.RoundTrip returned
     ret    |-> NoResult,    \* outbound: what RoundTrip returned
     ev     |-> << >>]       \* the calls made for this request, in order

Init ==
    /\ initPc = "notcalled"
    /\ cfg = NilConfig
    /\ err = None
    /\ envErr = None
    /\ initRet = "unset"
    /\ logged = FALSE
    /\ installed = FALSE
    /\ globalTracer = "noop"
    /\ rq = [s \in Slots |-> IdleReq]
    /\ spans = [s \in Slots |-> << >>]

\* ------------------------------------------------------- InitGlobalTracer
\* tracing.go:23  cfg, err := config.FromEnv()
\* FromEnv returns (nil, err) when an environment variable does not parse.
InitFromEnv(envOk) ==
    /\ initPc = "notcalled"
    /\ initPc' = "overrides"
    /\ cfg' = IF envOk THEN [NilConfig EXCEPT !.nil = FALSE] ELSE NilConfig
    /\ err' = IF envOk THEN None ELSE "cannot parse env var"
    /\ envErr' = err'
    /\ UNCHANGED <<initRet, logged, installed, globalTracer, rq, spans>>

\* tracing.go:26-30  cfg.Sampler = ...; cfg.Reporter.LogSpans = true
\* Writing through a nil cfg is a nil pointer dereference: the goroutine panics.
InitOverrides ==
    /\ initPc = "overrides"
    /\ IF cfg.nil
       THEN /\ initPc' = "panicked"
            /\ UNCHANGED cfg
       ELSE /\ initPc' = "create"
            /\ cfg' = [cfg EXCEPT !.sampler = "const1", !.logSpans = TRUE]
    /\ UNCHANGED <<err, envErr, initRet, logged, installed, globalTracer, rq, spans>>

\* tracing.go:39-46  closer, err := cfg.InitGlobalTracer(service, ...)
\* With createOk the tracer is built and set as the global tracer; otherwise
\* err is set and the global tracer stays opentracing's no-op default.
InitCreate(createOk) ==
    /\ initPc = "create"
    /\ initPc' = "check"
    /\ err' = IF createOk THEN None ELSE "no service name provided"
    /\ installed' = createOk
    /\ globalTracer' = IF createOk THEN "jaeger" ELSE globalTracer
    /\ UNCHANGED <<cfg, envErr, initRet, logged, rq, spans>>

\* tracing.go:48-53  if err != nil { log; return closer, err }; return closer, nil
InitReturn ==
    /\ initPc = "check"
    /\ initPc' = "returned"
    /\ logged' = (err # None)
    /\ initRet' = err
    /\ UNCHANGED <<cfg, err, envErr, installed, globalTracer, rq, spans>>

\* Requests are served once the initializer has returned: it runs at
\* startup, before traffic, and a panic there ends the process.
Serving == initPc = "returned"

\* Slots are taken in order.
Free(s) == rq[s].kind = "idle" /\ (IF s = 1 THEN TRUE ELSE rq[s - 1].kind # "idle")

\* The next id of the tracer's random generator: never handed out before.
NextId(s) == FirstId + (s - 1) + MaxRequests * Len(spans[s])

\* Variant of SpanOf: one span variable shared by all requests (the span
\* started first) instead of a variable of the request.
SharedSpan(s) ==
    LET first == CHOOSE x \in Slots : spans[x] # << >> /\ \A y \in Slots : spans[y] # << >> => x <= y
    IN  [slot |-> first, idx |-> 1]

\* The span a request's span variable refers to.
SpanOf(s) == rq[s].span

\* The span a reference stands for.
Span(h) == spans[h.slot][h.idx]

Upd(s, r) == [rq EXCEPT ![s] = r]

\* spans with the span that h refers to replaced by sp.
SpanUpd(h, sp) == [spans EXCEPT ![h.slot][h.idx] = sp]

\* Headers that requests sent by this code carry on the wire.
SentHeaders ==
    {rq[o].hdr : o \in {x \in Slots : rq[x].kind = "outbound"
                                      /\ rq[x].pc \in {"transport", "done"}}}

\* ------------------------------------------------------ TracingMiddleware
\* Variant of IsHealthCheck: strings.HasPrefix(r.URL.Path, "health").
IsHealthCheckPrefix(p) == Len(p) >= Len(Health) /\ SubSeq(p, 1, Len(Health)) = Health

\* tracing.go:61  strings.Contains(r.URL.Path, "health")
IsHealthCheck(p) == Contains(p, Health)

\* Variant of MwServe: an Extract error ends the request before the handler.
MwServeAbortOnError(s, r) ==
    /\ Serving
    /\ Free(s)
    /\ rq' = Upd(s,
         IF Contains(r.path, Health)
         THEN [IdleReq EXCEPT !.kind = "inbound", !.pc = "bypass",
                              !.path = r.path, !.hdr = r.hdr,
                              !.calls = 1, !.passed = r.hdr,
                              !.ev = <<"ServeHTTP">>]
         ELSE LET x == TracerExtract(globalTracer, r.hdr) IN
              [IdleReq EXCEPT !.kind = "inbound",
                              !.pc = IF x.err # None THEN "done" ELSE "startspan",
                              !.path = r.path, !.hdr = r.hdr,
                              !.wire = x.ctx, !.err = x.err,
                              !.ev = <<"Extract">>])
    /\ UNCHANGED <<initVars, spans>>

\* tracing.go:58-78  a request arrives.  A health check goes straight to
\* next.ServeHTTP; for any other request the middleware reads the global
\* tracer and extracts the wire context, logging (only) an error.
MwServe(s, r) ==
    /\ Serving
    /\ Free(s)
    /\ rq' = Upd(s,
         IF IsHealthCheck(r.path)
         THEN [IdleReq EXCEPT !.kind = "inbound", !.pc = "bypass",
                              !.path = r.path, !.hdr = r.hdr,
                              !.calls = 1, !.passed = r.hdr,
                              !.ev = <<"ServeHTTP">>]
         ELSE LET x == TracerExtract(globalTracer, r.hdr) IN
              [IdleReq EXCEPT !.kind = "inbound", !.pc = "startspan",
                              !.path = r.path, !.hdr = r.hdr,
                              !.wire = x.ctx, !.err = x.err,
                              !.ev = <<"Extract">>])
    /\ UNCHANGED <<initVars, spans>>

\* tracing.go:79-80  span := tracer.StartSpan(path, ext.RPCServerOption(wireContext));
\* defer span.Finish()
MwStartSpan(s) ==
    /\ rq[s].kind = "inbound" /\ rq[s].pc = "startspan"
    /\ spans' = [spans EXCEPT ![s] =
                    Append(@, TracerStartSpan(globalTracer, s, rq[s].path,
                                              rq[s].wire, TRUE, NextId(s)))]
    /\ rq' = Upd(s, [rq[s] EXCEPT !.span = [slot |-> s, idx |-> Len(spans[s]) + 1],
                                  !.ev = Append(@, "StartSpan"),
                                  !.pc = "logstart"])
    /\ UNCHANGED initVars

\* Variant of MwLogStart: the handler is called before "start" is logged.
MwLogStartAfterHandler(s) ==
    /\ rq[s].kind = "inbound" /\ rq[s].pc = "logstart"
    /\ spans' = SpanUpd(rq[s].span, SpanLogFields(Span(rq[s].span), s, rq[s].path, "start"))
    /\ rq' = Upd(s, [rq[s] EXCEPT !.calls = @ + 1, !.passed = rq[s].hdr,
                                  !.ev = @ \o <<"ServeHTTP", "LogFields:start">>,
                                  !.pc = "handler"])
    /\ UNCHANGED initVars

\* tracing.go:82-87  span.LogFields(event, "start"); next.ServeHTTP(w, r)
MwLogStart(s) ==
    /\ rq[s].kind = "inbound" /\ rq[s].pc = "logstart"
    /\ spans' = SpanUpd(SpanOf(s), SpanLogFields(Span(SpanOf(s)), s, rq[s].path, "start"))
    /\ rq' = Upd(s, [rq[s] EXCEPT !.calls = @ + 1, !.passed = rq[s].hdr,
                                  !.ev = @ \o <<"LogFields:start", "ServeHTTP">>,
                                  !.pc = "handler"])
    /\ UNCHANGED initVars

\* The wrapped handler returns, having written status st.  On the bypass
\* path the middleware returns too (tracing.go:63).
HandlerReturn(s, st) ==
    /\ rq[s].kind = "inbound" /\ rq[s].pc \in {"handler", "bypass"}
    /\ rq' = Upd(s, [rq[s] EXCEPT !.out = st,
                                  !.ev = Append(@, "ServeHTTP:return"),
                                  !.pc = IF rq[s].pc = "bypass" THEN "done"
                                         ELSE "logfinish"])
    /\ UNCHANGED <<initVars, spans>>

\* Variant of HandlerPanic: span.Finish() called at the end of the function
\* instead of deferred, so that a panic skips it.
HandlerPanicNoDefer(s) ==
    /\ rq[s].kind = "inbound" /\ rq[s].pc \in {"handler", "bypass"}
    /\ rq' = Upd(s, [rq[s] EXCEPT !.out = "panic",
                                  !.ev = Append(@, "ServeHTTP:panic"),
                                  !.pc = "done"])
    /\ UNCHANGED <<initVars, spans>>

\* The wrapped handler panics: the middleware's frame unwinds and runs its
\* deferred call (tracing.go:80); the bypass path has none.
HandlerPanic(s) ==
    /\ rq[s].kind = "inbound" /\ rq[s].pc \in {"handler", "bypass"}
    /\ rq' = Upd(s, [rq[s] EXCEPT !.out = "panic",
                                  !.ev = Append(@, "ServeHTTP:panic"),
                                  !.pc = IF rq[s].pc = "bypass" THEN "done"
                                         ELSE "unwind"])
    /\ UNCHANGED <<initVars, spans>>

\* tracing.go:89-96  span.LogFields(event, "finish"); return, which runs the
\* deferred span.Finish() of tracing.go:80.
MwLogFinish(s) ==
    /\ rq[s].kind = "inbound" /\ rq[s].pc = "logfinish"
    /\ spans' = SpanUpd(SpanOf(s),
                    SpanFinish(SpanLogFields(Span(SpanOf(s)), s, rq[s].path, "finish"), s))
    /\ rq' = Upd(s, [rq[s] EXCEPT !.ev = @ \o <<"LogFields:finish", "Finish">>,
                                  !.pc = "done"])
    /\ UNCHANGED initVars

\* tracing.go:80  the deferred span.Finish() runs as the panic unwinds the
\* middleware's frame.
MwDeferredFinish(s) ==
    /\ rq[s].kind = "inbound" /\ rq[s].pc = "unwind"
    /\ spans' = SpanUpd(SpanOf(s), SpanFinish(Span(SpanOf(s)), s))
    /\ rq' = Upd(s, [rq[s] EXCEPT !.ev = Append(@, "Finish"), !.pc = "done"])
    /\ UNCHANGED initVars

\* ------------------------------------------- InjectHeaders and RoundTrip
\* Inbound requests whose wrapped handler is running.
InHandler == {t \in Slots : rq[t].kind = "inbound" /\ rq[t].pc \in {"handler", "bypass"}}

\* tracing.go:125-127  RoundTrip(req) calls InjectHeaders(req) (viaRT), or
\* tracing.go:102 InjectHeaders(r) is called by the service itself.  c is the
\* inbound request whose handler makes the call, 0 when there is none.
OutboundCall(s, r, c) ==
    /\ Serving
    /\ Free(s)
    /\ c \in InHandler \cup {0}
    /\ rq' = Upd(s, [IdleReq EXCEPT !.kind = "outbound", !.pc = "ih_start",
                                    !.path = r.path, !.method = r.method,
                                    !.caller = c, !.viaRT = r.viaRT,
                                    !.ev = <<"InjectHeaders">>])
    /\ UNCHANGED <<initVars, spans>>

\* Variant of IhParent: the client span is made a child of the server span
\* of the inbound request being handled.
IhParentActive(s) ==
    IF rq[s].caller # 0 /\ rq[rq[s].caller].span # NoSpan
    THEN Span(rq[rq[s].caller].span).ctx
    ELSE NilContext

\* The ChildOf reference InjectHeaders passes to StartSpan: none
\* (tracing.go:103 gives no option).
IhParent(s) == NilContext

\* tracing.go:103-110  span := GlobalTracer().StartSpan(r.URL.Path);
\* defer span.Finish(); span.kind = client, http.url = path, http.method = method
IhStartSpan(s) ==
    /\ rq[s].kind = "outbound" /\ rq[s].pc = "ih_start"
    /\ LET sp == TracerStartSpan(globalTracer, s, rq[s].path, IhParent(s),
                                 FALSE, NextId(s)) IN
       spans' = [spans EXCEPT ![s] = Append(@,
                    SpanSetTag(SpanSetTag(SpanSetTag(sp, s, "span.kind", "client"),
                                          s, "http.url", rq[s].path),
                               s, "http.method", rq[s].method))]
    /\ rq' = Upd(s, [rq[s] EXCEPT !.span = [slot |-> s, idx |-> Len(spans[s]) + 1],
                                  !.ev = @ \o <<"StartSpan", "SetTags">>,
                                  !.pc = "ih_inject"])
    /\ UNCHANGED initVars

\* Variant of IhInject: InjectHeaders returns without finishing the span.
IhInjectNoFinish(s) ==
    /\ rq[s].kind = "outbound" /\ rq[s].pc = "ih_inject"
    /\ LET sp == Span(rq[s].span) IN
       rq' = Upd(s, [rq[s] EXCEPT !.hdr = TracerInject(sp.tracer, sp.ctx, @),
                                  !.ev = Append(@, "Inject"),
                                  !.pc = IF rq[s].viaRT THEN "delegate" ELSE "done"])
    /\ UNCHANGED <<initVars, spans>>

\* tracing.go:111-116  span.Tracer().Inject(span.Context(), HTTPHeaders, r.Header);
\* InjectHeaders returns, which runs the deferred span.Finish() of tracing.go:104.
IhInject(s) ==
    /\ rq[s].kind = "outbound" /\ rq[s].pc = "ih_inject"
    /\ LET sp == Span(SpanOf(s)) IN
       /\ rq' = Upd(s, [rq[s] EXCEPT !.hdr = TracerInject(sp.tracer, sp.ctx, @),
                                     !.ev = @ \o <<"Inject", "Finish">>,
                                     !.pc = IF rq[s].viaRT THEN "delegate" ELSE "done"])
       /\ spans' = SpanUpd(SpanOf(s), SpanFinish(sp, s))
    /\ UNCHANGED initVars

\* tracing.go:128  trt.Proxied.RoundTrip(req) is entered with the same request.
RtDelegate(s) ==
    /\ rq[s].kind = "outbound" /\ rq[s].pc = "delegate"
    /\ rq' = Upd(s, [rq[s] EXCEPT !.calls = @ + 1, !.passed = rq[s].hdr,
                                  !.ev = Append(@, "Proxied.RoundTrip"),
                                  !.pc = "transport"])
    /\ UNCHANGED <<initVars, spans>>

\* Variant of RtResult: the transport's error is dropped.
RtResultDropErr(tr) == [tr EXCEPT !.err = None]

\* tracing.go:128  return trt.Proxied.RoundTrip(req)
RtResult(tr) == tr

\* The underlying transport returns tr and RoundTrip returns.
RtReturn(s, tr) ==
    /\ rq[s].kind = "outbound" /\ rq[s].pc = "transport"
    /\ rq' = Upd(s, [rq[s] EXCEPT !.tret = tr, !.ret = RtResult(tr),
                                  !.ev = Append(@, "return"),
                                  !.pc = "done"])
    /\ UNCHANGED <<initVars, spans>>

\* ---------------------------------------------------------- specification
\* Inbound requests that can arrive: the fixed ones, and a request carrying
\* the headers of a request this code sent.
Arrivals == InboundRequests \cup {[path |-> PathOrders, hdr |-> h] : h \in SentHeaders}

Next ==
    \/ \E envOk \in BOOLEAN : InitFromEnv(envOk)
    \/ InitOverrides
    \/ \E createOk \in BOOLEAN : InitCreate(createOk)
    \/ InitReturn
    \/ \E s \in Slots, r \in Arrivals : MwServe(s, r)
    \/ \E s \in Slots : MwStartSpan(s)
    \/ \E s \in Slots : MwLogStart(s)
    \/ \E s \in Slots, st \in Statuses : HandlerReturn(s, st)
    \/ \E s \in Slots : HandlerPanic(s)
    \/ \E s \in Slots : MwLogFinish(s)
    \/ \E s \in Slots : MwDeferredFinish(s)
    \/ \E s \in Slots, r \in OutboundRequests, c \in Slots \cup {0} : OutboundCall(s, r, c)
    \/ \E s \in Slots : IhStartSpan(s)
    \/ \E s \in Slots : IhInject(s)
    \/ \E s \in Slots : RtDelegate(s)
    \/ \E s \in Slots, tr \in TransportResults : RtReturn(s, tr)

Spec == Init /\ [][Next]_vars

\* ------------------------------------------------------------- properties
IsPrefix(a, b) == Len(a) <= Len(b) /\ SubSeq(b, 1, Len(a)) = a

Count(seq, x) == Cardinality({i \in 1..Len(seq) : seq[i] = x})

\* Position of the first x in seq, 0 when there is none.
IndexOf(seq, x) ==
    IF \E i \in 1..Len(seq) : seq[i] = x
    THEN CHOOSE i \in 1..Len(seq) : seq[i] = x /\ \A j \in 1..(i - 1) : seq[j] # x
    ELSE 0

\* Inbound requests whose path does not contain "health".
Traced(s) == rq[s].kind = "inbound" /\ ~Contains(rq[s].path, Health)

\* Inbound requests whose path contains "health".
HealthCheck(s) == rq[s].kind = "inbound" /\ Contains(rq[s].path, Health)

\* Every span started so far, as references.
AllSpans == UNION {{[slot |-> s, idx |-> i] : i \in 1..Len(spans[s])} : s \in Slots}

\* The calls the middleware makes for a traced request whose handler returns,
\* and for one whose handler panics.
ReturnTrace == <<"Extract", "StartSpan", "LogFields:start", "ServeHTTP",
                 "ServeHTTP:return", "LogFields:finish", "Finish">>
PanicTrace  == <<"Extract", "StartSpan", "LogFields:start", "ServeHTTP",
                 "ServeHTTP:panic", "Finish">>

\* C1: for every request whose path does not contain "health", exactly one
\* span is started and that span is finished exactly once when the
\* middleware is left, whether the wrapped handler returned (with a 2xx or a
\* non-2xx status) or panicked; no span is ever finished twice.
C1_OneSpanFinishedOnce ==
    \A s \in Slots : Traced(s) =>
        /\ Len(spans[s]) <= 1
        /\ Count(rq[s].ev, "StartSpan") = Len(spans[s])
        /\ \A i \in 1..Len(spans[s]) : spans[s][i].finishes <= 1
        /\ rq[s].pc = "done" =>
              /\ rq[s].out \in Statuses \cup {"panic"}
              /\ Len(spans[s]) = 1
              /\ rq[s].span = [slot |-> s, idx |-> 1]
              /\ spans[s][1].finishes = 1
              /\ ~spans[s][1].open
              /\ Count(rq[s].ev, "Finish") = 1

C1_Witness ==
    \E s \in Slots :
        /\ Traced(s) /\ rq[s].pc = "done" /\ rq[s].out = "panic"
        /\ spans[s][1].finishes = 1

\* C2: for every request whose path contains "health" anywhere, the wrapped
\* handler is invoked exactly once with the request as it arrived and no
\* tracer operation is performed: no Extract, StartSpan, LogFields or Finish,
\* no span exists for it, and the outcome is the handler's own.
C2_HealthBypass ==
    \A s \in Slots : HealthCheck(s) =>
        /\ rq[s].calls = 1
        /\ rq[s].passed = rq[s].hdr
        /\ spans[s] = << >>
        /\ rq[s].span = NoSpan
        /\ rq[s].wire = NilContext /\ rq[s].err = None
        /\ \/ rq[s].ev = <<"ServeHTTP">> /\ rq[s].pc = "bypass" /\ rq[s].out = None
           \/ rq[s].ev = <<"ServeHTTP", "ServeHTTP:return">>
                 /\ rq[s].pc = "done" /\ rq[s].out \in Statuses
           \/ rq[s].ev = <<"ServeHTTP", "ServeHTTP:panic">>
                 /\ rq[s].pc = "done" /\ rq[s].out = "panic"
        /\ \A h \in AllSpans : s \notin Span(h).users /\ Span(h).owner # s

C2_Witness ==
    \E s \in Slots :
        /\ rq[s].kind = "inbound" /\ rq[s].path = PathApiHealthz
        /\ rq[s].pc = "done" /\ rq[s].out = "200"

\* C3: RoundTrip calls the underlying transport exactly once, after
\* InjectHeaders has run on the request and with the request's headers as
\* InjectHeaders left them, and returns exactly the (response, error) pair
\* the transport returned, for a success and for an error alike.
C3_RoundTripPassThrough ==
    \A s \in Slots : (rq[s].kind = "outbound" /\ rq[s].viaRT) =>
        /\ rq[s].calls <= 1
        /\ rq[s].calls = Count(rq[s].ev, "Proxied.RoundTrip")
        /\ rq[s].calls = 1 <=> rq[s].pc \in {"transport", "done"}
        /\ rq[s].calls = 1 =>
              /\ rq[s].passed = rq[s].hdr
              /\ 0 < IndexOf(rq[s].ev, "Inject")
              /\ IndexOf(rq[s].ev, "Inject") < IndexOf(rq[s].ev, "Proxied.RoundTrip")
              /\ rq[s].passed = TracerInject(Span(rq[s].span).tracer,
                                             Span(rq[s].span).ctx, NoHeaders)
        /\ rq[s].pc = "done" <=> rq[s].tret \in TransportResults
        /\ rq[s].pc = "done" => rq[s].ret = rq[s].tret
        /\ rq[s].pc # "done" => rq[s].ret = NoResult

C3_Witness ==
    \E s \in Slots :
        /\ rq[s].kind = "outbound" /\ rq[s].viaRT /\ rq[s].pc = "done"
        /\ rq[s].tret.err = "connection refused"
        /\ rq[s].ret = rq[s].tret

\* C4: when loading the configuration fails (config.FromEnv returns an
\* error, or tracer creation returns an error), InitGlobalTracer logs the
\* error and returns it as a non-nil error; it never panics; and it returns
\* a nil error only when the global tracer was installed.
C4_InitReturnsError ==
    /\ initPc # "panicked"
    /\ (initPc = "returned" /\ (envErr # None \/ err # None)) =>
           (initRet # None /\ logged)
    /\ (initPc = "returned" /\ initRet = None) =>
           (installed /\ globalTracer = "jaeger")

\* C5: when Extract returns an error (no trace context, or a malformed one)
\* the middleware goes on: the span it starts is a root span (no parent;
\* with the Jaeger tracer a new trace with no parent id), the wrapped
\* handler is invoked exactly once and the span is finished, with the same
\* calls in the same order as for a request whose extraction succeeded.
C5_ExtractErrorStartsRoot ==
    \A s \in Slots : (Traced(s) /\ rq[s].err # None) =>
        /\ \A i \in 1..Len(spans[s]) :
              /\ spans[s][i].parent = NilContext
              /\ spans[s][i].tracer = "jaeger" =>
                    /\ spans[s][i].ctx.parentID = 0
                    /\ spans[s][i].ctx.traceID = spans[s][i].ctx.spanID
                    /\ spans[s][i].ctx.traceID >= FirstId
        /\ rq[s].calls <= 1
        /\ IsPrefix(rq[s].ev, ReturnTrace) \/ IsPrefix(rq[s].ev, PanicTrace)
        /\ rq[s].pc = "done" =>
              /\ rq[s].calls = 1
              /\ Len(spans[s]) = 1 /\ spans[s][1].finishes = 1
              /\ rq[s].ev \in {ReturnTrace, PanicTrace}

C5_Witness ==
    \E s \in Slots :
        /\ Traced(s) /\ rq[s].err = "ErrSyntax" /\ rq[s].pc = "done"
        /\ spans[s][1].tracer = "jaeger" /\ spans[s][1].ctx.parentID = 0
        /\ rq[s].ev = ReturnTrace

\* Outbound requests whose headers InjectHeaders has injected a Jaeger
\* span's context into.
Injected(o) ==
    /\ rq[o].kind = "outbound"
    /\ rq[o].pc \in {"delegate", "transport", "done"}
    /\ Span(rq[o].span).tracer = "jaeger"

\* C6: once InjectHeaders has injected a client span's context into a
\* request's headers, extraction from those headers with the HTTP-headers
\* format succeeds and yields the injected context (same trace id and span
\* id); a middleware that receives these headers extracts that context and
\* starts its server span with it as parent, in the same trace, not as a
\* new root.
C6_InjectExtractRoundTrip ==
    \A o \in Slots : Injected(o) =>
        /\ TracerExtract("jaeger", rq[o].hdr) =
               [ctx |-> Span(rq[o].span).ctx, err |-> None]
        /\ \A i \in Slots :
              (Traced(i) /\ rq[i].hdr = rq[o].hdr /\ globalTracer = "jaeger") =>
                 /\ rq[i].err = None
                 /\ rq[i].wire.traceID = Span(rq[o].span).ctx.traceID
                 /\ rq[i].wire.spanID = Span(rq[o].span).ctx.spanID
                 /\ \A k \in 1..Len(spans[i]) :
                       /\ spans[i][k].parent = Span(rq[o].span).ctx
                       /\ spans[i][k].ctx.traceID = Span(rq[o].span).ctx.traceID

C6_Witness ==
    \E o \in Slots, i \in Slots :
        /\ Injected(o) /\ Traced(i) /\ rq[i].hdr = rq[o].hdr
        /\ rq[i].pc = "done"
        /\ spans[i][1].parent = Span(rq[o].span).ctx
        /\ spans[i][1].ctx.traceID = Span(rq[o].span).ctx.traceID

\* C7 as claimed: every request whose path does not contain "health" leaves
\* the middleware with the calls span started, "start" logged, handler
\* invoked and returned, "finish" logged, span finished, in this order, so
\* that both fields are logged for every such request.
C7_BothFieldsAlwaysLogged ==
    \A s \in Slots : (Traced(s) /\ rq[s].pc = "done") => rq[s].ev = ReturnTrace

\* C7 as amended: the calls occur in the claimed order, and both fields are
\* logged, for every traced request whose wrapped handler returns; when the
\* handler panics the "finish" field is not logged and the span is still
\* finished.  In both cases the handler never runs before "start" is
\* logged and no field is logged on a span after it was finished.
C7_EventOrder ==
    \A s \in Slots : Traced(s) =>
        /\ IsPrefix(rq[s].ev, ReturnTrace) \/ IsPrefix(rq[s].ev, PanicTrace)
        /\ rq[s].pc = "done" =>
              rq[s].ev = (IF rq[s].out = "panic" THEN PanicTrace ELSE ReturnTrace)
        /\ \A i \in 1..Len(spans[s]) :
              /\ \A k \in 1..Len(spans[s][i].logs) : ~spans[s][i].logs[k].late
              /\ (spans[s][i].tracer = "jaeger" /\ rq[s].pc = "done") =>
                    spans[s][i].logs =
                       IF rq[s].out = "panic"
                       THEN <<[event |-> rq[s].path, value |-> "start", late |-> FALSE]>>
                       ELSE <<[event |-> rq[s].path, value |-> "start", late |-> FALSE],
                              [event |-> rq[s].path, value |-> "finish", late |-> FALSE]>>

C7_Witness ==
    \E s \in Slots :
        /\ Traced(s) /\ rq[s].pc = "done" /\ rq[s].out = "panic"
        /\ rq[s].ev = PanicTrace
        /\ spans[s][1].tracer = "jaeger" /\ Len(spans[s][1].logs) = 1

\* Outbound calls through RoundTrip for which the underlying transport has
\* been entered.
AtTransport(s) ==
    rq[s].kind = "outbound" /\ rq[s].viaRT /\ rq[s].pc \in {"transport", "done"}

\* The tags InjectHeaders sets.
ClientTags(s) ==
    {<<"span.kind", "client">>, <<"http.url", rq[s].path>>,
     <<"http.method", rq[s].method>>}

\* The headers carry B3 trace identifiers.
CarriesTrace(h) ==
    /\ {CanonicalMIMEHeaderKey(KeyTraceId), CanonicalMIMEHeaderKey(KeySpanId)} \subseteq DOMAIN h
    /\ HeaderId(h, KeyTraceId) > 0
    /\ HeaderId(h, KeySpanId) > 0

\* C8 as claimed: for every outbound call through RoundTrip, when the
\* underlying transport is entered exactly one client span was started,
\* tagged with kind client, the path and the method, and finished, and the
\* request headers carry the trace identifiers.
C8_AlwaysTaggedAndInjected ==
    \A s \in Slots : AtTransport(s) =>
        /\ Len(spans[s]) = 1
        /\ spans[s][1].tags = ClientTags(s)
        /\ ~spans[s][1].open /\ spans[s][1].finishes = 1
        /\ CarriesTrace(rq[s].passed)

\* C8 as amended: for every outbound call through RoundTrip exactly one
\* span is started and it is finished before the underlying transport is
\* entered, so that no span of the call is open then; when the global
\* tracer is the Jaeger tracer InitGlobalTracer installs, the span carries
\* the tags kind client, path and method, and the headers the transport
\* receives carry the span's trace identifiers.  With the no-op tracer
\* (nothing installed) nothing is tagged and no header is added.
C8_FinishedBeforeTransport ==
    \A s \in Slots : (rq[s].kind = "outbound" /\ rq[s].viaRT) =>
        /\ Len(spans[s]) <= 1
        /\ rq[s].pc = "delegate" => ~spans[s][1].open
        /\ AtTransport(s) =>
              /\ Len(spans[s]) = 1
              /\ ~spans[s][1].open /\ spans[s][1].finishes = 1
              /\ IndexOf(rq[s].ev, "Finish") < IndexOf(rq[s].ev, "Proxied.RoundTrip")
              /\ IndexOf(rq[s].ev, "Inject") < IndexOf(rq[s].ev, "Finish")
              /\ 0 < IndexOf(rq[s].ev, "Inject")
              /\ spans[s][1].tracer = "jaeger" =>
                    /\ spans[s][1].tags = ClientTags(s)
                    /\ CarriesTrace(rq[s].passed)
                    /\ HeaderId(rq[s].passed, KeyTraceId) = spans[s][1].ctx.traceID
                    /\ HeaderId(rq[s].passed, KeySpanId) = spans[s][1].ctx.spanID
              /\ spans[s][1].tracer = "noop" =>
                    /\ spans[s][1].tags = {}
                    /\ rq[s].passed = NoHeaders

C8_Witness ==
    \E s \in Slots :
        /\ AtTransport(s) /\ rq[s].pc = "transport"
        /\ spans[s][1].tracer = "jaeger"
        /\ CarriesTrace(rq[s].passed)
        /\ ~spans[s][1].open

\* Requests that hold a span they have not finished yet.
HoldsSpan(s) ==
    \/ rq[s].kind = "inbound" /\ rq[s].pc \in {"logstart", "handler", "logfinish", "unwind"}
    \/ rq[s].kind = "outbound" /\ rq[s].pc = "ih_inject"

\* C9: under every interleaving of the requests, a span is logged to,
\* tagged and finished only by the request that started it; every request
\* refers to a span of its own; a request in flight between StartSpan and
\* Finish owns exactly one open span and any other request none; and when
\* all requests have completed no span is open.
C9_SpansNotShared ==
    /\ \A h \in AllSpans :
          /\ Span(h).owner = h.slot
          /\ Span(h).users \subseteq {Span(h).owner}
          /\ Span(h).finishes <= 1
    /\ \A s \in Slots :
          /\ rq[s].span # NoSpan => (rq[s].span.slot = s /\ rq[s].span \in AllSpans)
          /\ Cardinality({h \in AllSpans : Span(h).owner = s /\ Span(h).open})
                = (IF HoldsSpan(s) THEN 1 ELSE 0)
    /\ (\A s \in Slots : rq[s].pc \in {"idle", "done"}) =>
          \A h \in AllSpans : ~Span(h).open

C9_Witness ==
    \E s \in Slots, u \in Slots :
        /\ s # u
        /\ rq[s].kind = "inbound" /\ rq[s].pc = "handler"
        /\ HoldsSpan(u) /\ Span(rq[u].span).users = {u}
        /\ Span(rq[s].span).users = {s}
        /\ Span(rq[s].span).open /\ Span(rq[u].span).open

\* C10: the client span InjectHeaders starts is always a root span: it has
\* no parent reference, and with the Jaeger tracer it has no parent id and
\* starts a new trace.  When the call is made from inside a wrapped handler
\* the client span does not share the trace id of the server span open for
\* that inbound request, and the headers it injects carry the new trace id,
\* not the inbound request's.
C10_ClientSpanIsRoot ==
    \A o \in Slots : rq[o].kind = "outbound" =>
        \A k \in 1..Len(spans[o]) :
            /\ spans[o][k].ref = NilContext
            /\ spans[o][k].parent = NilContext
            /\ spans[o][k].tracer = "jaeger" =>
                  /\ spans[o][k].ctx.parentID = 0
                  /\ spans[o][k].ctx.traceID >= FirstId
                  /\ rq[o].caller # 0 =>
                        \A j \in 1..Len(spans[rq[o].caller]) :
                            /\ spans[rq[o].caller][j].ctx.traceID # spans[o][k].ctx.traceID
                            /\ spans[rq[o].caller][j].ctx # spans[o][k].parent
                  /\ Injected(o) =>
                        /\ HeaderId(rq[o].hdr, KeyTraceId) = spans[o][k].ctx.traceID
                        /\ HeaderValues(rq[o].hdr, KeyParentId) = {}
                        /\ rq[o].caller # 0 =>
                              HeaderId(rq[o].hdr, KeyTraceId) #
                                 HeaderId(rq[rq[o].caller].hdr, KeyTraceId)

C10_Witness ==
    \E o \in Slots :
        /\ Injected(o) /\ rq[o].caller # 0
        /\ rq[rq[o].caller].pc = "handler"
        /\ rq[rq[o].caller].wire.traceID = 5
        /\ Span(rq[rq[o].caller].span).open
        /\ Span(rq[rq[o].caller].span).ctx.traceID = 5
        /\ Span(rq[o].span).ctx.traceID >= FirstId

====
